---- MODULE Spec2Model ----
(***************************************************************************)
(* Model of torchtrain/metrics.py: GPUMemoryMonitor (the device-memory     *)
(* monitor) and MetricLogger (the metric emitter).                         *)
(*                                                                         *)
(* The monitor talks to torch.cuda and the logger to a tensorboard         *)
(* SummaryWriter.  Both libraries are modelled by what the calls made in   *)
(* metrics.py do: a caching allocator per device with current/peak byte    *)
(* counters and cumulative retry/OOM counters, the process's current       *)
(* device, and a writer that owns an event file.                           *)
(*                                                                         *)
(* Byte counts are kept in units of BytesPerUnit bytes so that GiB-sized   *)
(* values stay inside TLC's integers.  Python's true division is modelled  *)
(* by exact rationals in lowest terms (float rounding is not modelled).    *)
(***************************************************************************)
EXTENDS Integers, Sequences, FiniteSets, TLC

VARIABLES
    \* ---- torch.cuda (process-wide device runtime) ----
    dev,             \* per device: allocator counters (torch.cuda.memory_stats)
    current_device,  \* torch.cuda.current_device()
    \* ---- GPUMemoryMonitor ----
    mon,             \* the monitor's attributes, NoMonitor before __init__
    stats,           \* GPUMemStats returned by the latest get_peak_stats
    cuda_info,       \* what that call read: device and raw counters
    warned,          \* logger.warning messages emitted by that call
    reset_dev,       \* device whose peaks the monitor's latest reset touched
    hist,            \* <<previous op, latest op>> on the process
    reset_since,     \* reset_peak_stats called since the latest get_peak_stats
    \* ---- MetricLogger / SummaryWriter ----
    tag,             \* MetricLogger.tag
    writer,          \* MetricLogger.writer: None or the SummaryWriter's state
    scalars,         \* add_scalar calls received by the sink, in order
    opened,          \* number of event files opened so far
    flushed,         \* number of event-file flush+close performed so far
    raised,          \* an exception escaped a MetricLogger call
    enable_tb,       \* the enable_tb argument of MetricLogger.__init__
    closed,          \* MetricLogger.close has been called
    prev_call,       \* name of the call before the latest one
    call             \* the latest call on the logger, with its arguments

monVars == <<dev, current_device, mon, stats, cuda_info, warned, reset_dev,
             hist, reset_since>>
logVars == <<tag, writer, scalars, opened, flushed, raised, enable_tb, closed,
             prev_call, call>>
vars == <<monVars, logVars>>

None == "None"

\* torch.device("cuda").index is None: the device string names no index.
NoIndex == -1

(***************************************************************************)
(* Numbers                                                                 *)
(***************************************************************************)
Max(a, b) == IF a >= b THEN a ELSE b

RECURSIVE GCD(_, _)
GCD(a, b) == IF b = 0 THEN a ELSE GCD(b, a % b)

\* Python's n / d on non-negative integers, d > 0: the exact quotient.
TrueDiv(n, d) == LET g == GCD(n, d) IN [num |-> n \div g, den |-> d \div g]

Whole(n) == [num |-> n, den |-> 1]

Leq(p, q) == p.num * q.den <= q.num * p.den

\* One unit of the model's byte counters.
BytesPerUnit == 1024 * 1024

(***************************************************************************)
(* torch.cuda: devices and their caching allocators                        *)
(***************************************************************************)
Devices == {0, 1}

\* get_device_properties(d).total_memory, in units: 16 GiB and 8 GiB.
TotalMemory == [d \in Devices |-> IF d = 0 THEN 16 * 1024 ELSE 8 * 1024]

\* get_device_name(d)
DeviceName == [d \in Devices |-> IF d = 0 THEN "gpu-a" ELSE "gpu-b"]

\* Sizes the workload requests, in units: 8 GiB and 16 GiB.
AllocSizes == {8 * 1024, 16 * 1024}

\* Bound on the allocation retries of the whole process.
MaxRetries == 1

FreshAllocator ==
    [active |-> 0, active_peak |-> 0, reserved |-> 0, reserved_peak |-> 0,
     num_alloc_retries |-> 0, num_ooms |-> 0]

TotalRetries == dev[0].num_alloc_retries + dev[1].num_alloc_retries

\* torch.device(device).index resolved the way torch.cuda's query functions
\* resolve it: an index-less "cuda" means the current device at call time.
DeviceIndexOf(device, cur) == IF device = NoIndex THEN cur ELSE device

\* The allocator serves the request from memory it already reserved.
Reuse(s, size) ==
    [s EXCEPT !.active = s.active + size,
              !.active_peak = Max(s.active_peak, s.active + size)]

\* The allocator reserves more device memory for the request.
Grow(s, size) ==
    [s EXCEPT !.active = s.active + size,
              !.active_peak = Max(s.active_peak, s.active + size),
              !.reserved = s.active + size,
              !.reserved_peak = Max(s.reserved_peak, s.active + size)]

\* The cache is released and the allocation retried; OOM if it still fails.
Retry(s, size, cap) ==
    LET r == [s EXCEPT !.reserved = s.active,
                       !.num_alloc_retries = s.num_alloc_retries + 1]
    IN  IF r.active + size <= cap
        THEN Grow(r, size)
        ELSE [r EXCEPT !.num_ooms = r.num_ooms + 1]

NeedsRetry(s, size, cap) ==
    /\ s.reserved - s.active < size
    /\ s.reserved + size > cap

AllocResult(s, size, cap) ==
    IF s.reserved - s.active >= size THEN Reuse(s, size)
    ELSE IF s.reserved + size <= cap THEN Grow(s, size)
    ELSE Retry(s, size, cap)

\* torch.cuda.reset_peak_memory_stats(): no device argument, so the peaks of
\* the CURRENT device restart from the current usage.
reset_peak_memory_stats(d, cur) ==
    [d EXCEPT ![cur] = [d[cur] EXCEPT !.active_peak = d[cur].active,
                                      !.reserved_peak = d[cur].reserved]]

\* torch.cuda.empty_cache(): every allocator releases its unused cached memory.
empty_cache(d) ==
    [i \in Devices |-> [d[i] EXCEPT !.reserved = d[i].active]]

\* torch.cuda.memory_stats(device)
memory_stats(d, device, cur) == d[DeviceIndexOf(device, cur)]

(***************************************************************************)
(* GPUMemoryMonitor                                                        *)
(***************************************************************************)
NoMonitor == [device |-> NoIndex, device_name |-> None, device_index |-> -1,
              device_capacity |-> 0, device_capacity_gib |-> Whole(0),
              live |-> FALSE]

\* torch.device(device).index for "cuda:0", "cuda:1" and "cuda".
DeviceArgs == Devices \cup {NoIndex}

gib_in_bytes == 1024 * 1024 * 1024

\* _to_gib with the decimal GB divisor.
_to_gb(memory) == TrueDiv(memory, (1000 * 1000 * 1000) \div BytesPerUnit)

_to_gib(memory) == TrueDiv(memory, gib_in_bytes \div BytesPerUnit)

_to_pct(memory, device_capacity) == TrueDiv(100 * memory, device_capacity)

\* The monitor's attributes after __init__(device) (lines 35-41).
Attributes(device, cur) ==
    [device |-> device,
     device_name |-> DeviceName[DeviceIndexOf(device, cur)],
     device_index |-> cur,
     device_capacity |-> TotalMemory[DeviceIndexOf(device, cur)],
     device_capacity_gib |-> _to_gib(TotalMemory[DeviceIndexOf(device, cur)]),
     live |-> TRUE]

\* The allocator state __init__ leaves behind (lines 43-44).
InitCounters(d, cur) == empty_cache(reset_peak_memory_stats(d, cur))

\* Warnings without the retry check.
WarningsOomOnly(num_retries, num_ooms) ==
    IF num_ooms > 0 THEN <<"CUDA OOM errors thrown.">> ELSE <<>>

\* The warnings of get_peak_stats (lines 69-72).
Warnings(num_retries, num_ooms) ==
    (IF num_retries > 0 THEN <<"CUDA memory allocation retries.">> ELSE <<>>)
    \o (IF num_ooms > 0 THEN <<"CUDA OOM errors thrown.">> ELSE <<>>)

NoStats ==
    [taken |-> FALSE,
     max_active_gib |-> Whole(0), max_active_pct |-> Whole(0),
     max_reserved_gib |-> Whole(0), max_reserved_pct |-> Whole(0),
     num_alloc_retries |-> 0, num_ooms |-> 0]

NoInfo == [device |-> NoIndex, counters |-> FreshAllocator]

\* The GPUMemStats tuple built from the counters read (lines 58-81).
GPUMemStats(info, device_capacity) ==
    [taken |-> TRUE,
     max_active_gib |-> _to_gib(info.active_peak),
     max_active_pct |-> _to_pct(info.active_peak, device_capacity),
     max_reserved_gib |-> _to_gib(info.reserved_peak),
     max_reserved_pct |-> _to_pct(info.reserved_peak, device_capacity),
     num_alloc_retries |-> info.num_alloc_retries,
     num_ooms |-> info.num_ooms]

Shift(h, op) == <<h[2], op>>

\* ---- process activity outside the monitor ----

\* The workload allocates `size` on device d.
Malloc(d, size) ==
    /\ NeedsRetry(dev[d], size, TotalMemory[d]) => TotalRetries < MaxRetries
    /\ dev' = [dev EXCEPT ![d] = AllocResult(dev[d], size, TotalMemory[d])]
    /\ hist' = Shift(hist, "workload")
    /\ UNCHANGED <<current_device, mon, stats, cuda_info, warned, reset_dev,
                   reset_since, logVars>>

\* The workload frees `size` on device d; the allocator keeps it cached.
Free(d, size) ==
    /\ dev[d].active >= size
    /\ dev' = [dev EXCEPT ![d].active = @ - size]
    /\ hist' = Shift(hist, "workload")
    /\ UNCHANGED <<current_device, mon, stats, cuda_info, warned, reset_dev,
                   reset_since, logVars>>

\* torch.cuda.set_device(d) somewhere in the process.
SetDevice(d) ==
    /\ d # current_device
    /\ current_device' = d
    /\ hist' = Shift(hist, "workload")
    /\ UNCHANGED <<dev, mon, stats, cuda_info, warned, reset_dev, reset_since,
                   logVars>>

\* ---- the monitor's operations ----

\* GPUMemoryMonitor.__init__(device)
Construct(device) ==
    /\ ~mon.live
    /\ mon' = Attributes(device, current_device)
    /\ dev' = InitCounters(dev, current_device)
    /\ reset_dev' = current_device
    /\ hist' = Shift(hist, "__init__")
    /\ reset_since' = FALSE
    /\ UNCHANGED <<current_device, stats, cuda_info, warned, logVars>>

\* GPUMemoryMonitor.get_peak_stats()
get_peak_stats ==
    /\ mon.live
    /\ LET info == memory_stats(dev, mon.device, current_device) IN
        /\ cuda_info' = [device |-> DeviceIndexOf(mon.device, current_device),
                         counters |-> info]
        /\ stats' = GPUMemStats(info, mon.device_capacity)
        /\ warned' = Warnings(info.num_alloc_retries, info.num_ooms)
    /\ hist' = Shift(hist, "get_peak_stats")
    /\ reset_since' = FALSE
    /\ UNCHANGED <<dev, current_device, mon, reset_dev, logVars>>

\* reset_peak_stats with the accumulated counters of the device cleared too.
reset_all_stats ==
    /\ mon.live
    /\ dev' = [reset_peak_memory_stats(dev, current_device)
                 EXCEPT ![current_device].num_alloc_retries = 0,
                        ![current_device].num_ooms = 0]
    /\ reset_dev' = current_device
    /\ hist' = Shift(hist, "reset_peak_stats")
    /\ reset_since' = TRUE
    /\ UNCHANGED <<current_device, mon, stats, cuda_info, warned, logVars>>

\* GPUMemoryMonitor.reset_peak_stats()
reset_peak_stats ==
    /\ mon.live
    /\ dev' = reset_peak_memory_stats(dev, current_device)
    /\ reset_dev' = current_device
    /\ hist' = Shift(hist, "reset_peak_stats")
    /\ reset_since' = TRUE
    /\ UNCHANGED <<current_device, mon, stats, cuda_info, warned, logVars>>

MonitorNext ==
    \/ \E d \in Devices, size \in AllocSizes : Malloc(d, size)
    \/ \E d \in Devices, size \in AllocSizes : Free(d, size)
    \/ \E d \in Devices : SetDevice(d)
    \/ \E device \in DeviceArgs : Construct(device)
    \/ get_peak_stats
    \/ reset_peak_stats

(***************************************************************************)
(* SummaryWriter (the sink) and MetricLogger                               *)
(***************************************************************************)
\* Bound on the add_scalar calls the sink receives.
MaxScalars == 3

\* Bound on the step values passed to log.
MaxStep == 1

\* Bound on the event files the sink opens.
MaxOpens == 2

Keys == {"loss", "lr"}

Tags == {None, "train"}

\* A metrics dict is an insertion-ordered sequence of entries with distinct
\* keys; values are in hundredths (loss 1.23, lr 0.03).
Entry(k) == [k |-> k, v |-> IF k = "loss" THEN 123 ELSE 3]

MetricsArgs ==
    {<<>>} \cup {<<Entry(k)>> : k \in Keys}
           \cup {<<Entry(p[1]), Entry(p[2])>> :
                    p \in {q \in Keys \X Keys : q[1] # q[2]}}

Steps == 0..MaxStep

NoWriter == [present |-> FALSE, open |-> FALSE]

NoCall == [op |-> "start", metrics |-> <<>>, step |-> 0]

\* __init__ building the SummaryWriter whatever enable_tb says.
AlwaysWriter(enable) == [present |-> TRUE, open |-> TRUE]

\* self.writer after MetricLogger.__init__ (lines 112-114); a SummaryWriter
\* opens its event file when it is built.
NewWriter(enable) ==
    IF enable THEN [present |-> TRUE, open |-> TRUE] ELSE NoWriter

\* The tag of one entry with the separator forgotten.
UnseparatedTag(t, k) == IF t = None THEN k ELSE t \o k

\* The tag of one entry (line 119).
QualifiedTag(t, k) == IF t = None THEN k ELSE t \o "/" \o k

\* The add_scalar calls of one log call, in dict order (lines 118-120).
ScalarsOf(t, metrics, step) ==
    [i \in 1..Len(metrics) |->
        [tag |-> QualifiedTag(t, metrics[i].k), value |-> metrics[i].v,
         step |-> step]]

\* SummaryWriter.add_scalar on a closed writer opens a new event file first.
Reopens(w, metrics) == w.present /\ ~w.open /\ Len(metrics) > 0

\* MetricLogger.log(metrics, step)
log(metrics, step) ==
    /\ Len(scalars) + Len(metrics) <= MaxScalars
    /\ Reopens(writer, metrics) => opened < MaxOpens
    /\ IF writer.present
       THEN /\ scalars' = scalars \o ScalarsOf(tag, metrics, step)
            /\ writer' = IF Len(metrics) > 0
                         THEN [writer EXCEPT !.open = TRUE] ELSE writer
            /\ opened' = IF Reopens(writer, metrics) THEN opened + 1 ELSE opened
       ELSE UNCHANGED <<scalars, writer, opened>>
    /\ prev_call' = call.op
    /\ call' = [op |-> "log", metrics |-> metrics, step |-> step]
    /\ UNCHANGED <<tag, flushed, raised, enable_tb, closed, monVars>>

\* close() without the None check: a disabled logger raises AttributeError.
close_unguarded ==
    /\ IF writer.present
       THEN /\ writer' = [writer EXCEPT !.open = FALSE]
            /\ flushed' = IF writer.open THEN flushed + 1 ELSE flushed
            /\ UNCHANGED raised
       ELSE /\ raised' = TRUE
            /\ UNCHANGED <<writer, flushed>>
    /\ closed' = TRUE
    /\ prev_call' = call.op
    /\ call' = [op |-> "close", metrics |-> <<>>, step |-> 0]
    /\ UNCHANGED <<tag, scalars, opened, enable_tb, monVars>>

\* MetricLogger.close(); SummaryWriter.close ignores a double close.
close ==
    /\ IF writer.present /\ writer.open
       THEN /\ writer' = [writer EXCEPT !.open = FALSE]
            /\ flushed' = flushed + 1
       ELSE UNCHANGED <<writer, flushed>>
    /\ closed' = TRUE
    /\ prev_call' = call.op
    /\ call' = [op |-> "close", metrics |-> <<>>, step |-> 0]
    /\ UNCHANGED <<tag, scalars, opened, raised, enable_tb, monVars>>

LoggerNext ==
    \/ \E metrics \in MetricsArgs, step \in Steps : log(metrics, step)
    \/ close

(***************************************************************************)
(* Specifications                                                          *)
(***************************************************************************)
\* The process before a monitor is built.
MonitorStart ==
    /\ dev = [d \in Devices |-> FreshAllocator]
    /\ current_device \in Devices
    /\ mon = NoMonitor
    /\ stats = NoStats
    /\ cuda_info = NoInfo
    /\ warned = <<>>
    /\ reset_dev = NoIndex
    /\ hist = <<"start", "start">>
    /\ reset_since = FALSE

\* A MetricLogger right after __init__(log_dir, tag, enable_tb).
LoggerStart ==
    /\ tag \in Tags
    /\ enable_tb \in BOOLEAN
    /\ writer = NewWriter(enable_tb)
    /\ opened = (IF writer.present THEN 1 ELSE 0)
    /\ scalars = <<>>
    /\ flushed = 0
    /\ raised = FALSE
    /\ closed = FALSE
    /\ prev_call = "start"
    /\ call = NoCall

\* No MetricLogger is built.
LoggerIdle ==
    /\ tag = None
    /\ enable_tb = FALSE
    /\ writer = NoWriter
    /\ opened = 0
    /\ scalars = <<>>
    /\ flushed = 0
    /\ raised = FALSE
    /\ closed = FALSE
    /\ prev_call = "start"
    /\ call = NoCall

\* No monitor is built and the devices are untouched.
MonitorIdle ==
    /\ dev = [d \in Devices |-> FreshAllocator]
    /\ current_device = 0
    /\ mon = NoMonitor
    /\ stats = NoStats
    /\ cuda_info = NoInfo
    /\ warned = <<>>
    /\ reset_dev = NoIndex
    /\ hist = <<"start", "start">>
    /\ reset_since = FALSE

Init == MonitorStart /\ LoggerStart

Next == MonitorNext \/ LoggerNext

Spec == Init /\ [][Next]_vars

\* The monitor and the device runtime, in a process that builds no logger.
MonitorInit == MonitorStart /\ LoggerIdle

MonitorSpec == MonitorInit /\ [][MonitorNext]_vars

\* The logger, in a process that builds no monitor.
LoggerInit == MonitorIdle /\ LoggerStart

LoggerSpec == LoggerInit /\ [][LoggerNext]_vars

(***************************************************************************)
(* Properties of MetricLogger (checked under LoggerSpec)                   *)
(***************************************************************************)
IsCall(op) == call'.op = op /\ prev_call' = call.op

\* C1: for a logger built with enable_tb true, once close() has been called
\* every later log(metrics, step) performs no sink write, opens nothing and
\* raises no error.
C1_PostCloseLogIsDropped ==
    [][(enable_tb /\ closed /\ IsCall("log"))
        => (scalars' = scalars /\ opened' = opened /\ ~raised')]_vars

\* C2: close() is idempotent: a close() that directly follows a close(),
\* for an enabled or a disabled logger and after any log calls, raises no
\* error and leaves the logger and the sink as the first close left them
\* (the event file is flushed and closed by the first call only).
C2_CloseIdempotent ==
    [][(call.op = "close" /\ IsCall("close"))
        => /\ writer' = writer /\ tag' = tag
           /\ scalars' = scalars /\ opened' = opened /\ flushed' = flushed
           /\ ~raised']_vars

C2_Witness ==
    /\ enable_tb /\ prev_call = "close" /\ call.op = "close"
    /\ Len(scalars) > 0 /\ flushed = 1 /\ ~writer.open

\* C3: a logger built with enable_tb false opens no sink resource, and
\* whatever log and close calls follow, no sink write is ever performed and
\* no call raises: it stays disabled.
C3_DisabledStaysSilent ==
    ~enable_tb =>
        /\ ~writer.present /\ opened = 0 /\ flushed = 0
        /\ scalars = <<>> /\ ~raised

C3_Witness ==
    /\ ~enable_tb /\ closed /\ prev_call = "log" /\ call.op = "log"
    /\ Len(call.metrics) = 2

\* The qualified names the claims spell out.
ExpectedName(t, k) ==
    IF t = None THEN k
    ELSE IF k = "loss" THEN "train/loss" ELSE "train/lr"

\* C4: on an enabled, not yet closed logger, log(metrics, step) performs
\* exactly one sink write per entry of metrics and no other write; each
\* write carries the entry's value and the step as passed, under the name
\* tag + "/" + key when a tag is set and the bare key otherwise.
C4_OneWritePerEntry ==
    [][(writer.present /\ ~closed /\ IsCall("log"))
        => /\ Len(scalars') = Len(scalars) + Len(call'.metrics)
           /\ SubSeq(scalars', 1, Len(scalars)) = scalars
           /\ \A i \in 1..Len(call'.metrics) :
                scalars'[Len(scalars) + i] =
                    [tag |-> ExpectedName(tag, call'.metrics[i].k),
                     value |-> call'.metrics[i].v,
                     step |-> call'.step]
           /\ opened' = opened /\ flushed' = flushed /\ ~raised']_vars

\* Two logs with decreasing steps, both written as passed.
C4_Witness ==
    /\ tag = "train" /\ ~closed /\ prev_call = "log"
    /\ call = [op |-> "log", metrics |-> <<Entry("loss")>>, step |-> 0]
    /\ scalars = <<[tag |-> "train/loss", value |-> 123, step |-> 1],
                   [tag |-> "train/loss", value |-> 123, step |-> 0]>>

(***************************************************************************)
(* Properties of GPUMemoryMonitor (checked under MonitorSpec)              *)
(***************************************************************************)
IsOp(op) == hist' = Shift(hist, op)

SameCounts(d1, d2) ==
    \A d \in Devices :
        /\ d1[d].num_alloc_retries = d2[d].num_alloc_retries
        /\ d1[d].num_ooms = d2[d].num_ooms

\* C5: reset_peak_stats restarts only the peak window.  It leaves every
\* device's num_alloc_retries and num_ooms unchanged, and in the sequence
\* get_peak_stats, reset_peak_stats, get_peak_stats with nothing in between
\* the second snapshot reports active and reserved peaks no greater than the
\* first, and the same retry and OOM counts.
C5_ResetRestartsOnlyPeaks ==
    [][/\ IsOp("reset_peak_stats") => SameCounts(dev', dev)
       /\ (hist = <<"get_peak_stats", "reset_peak_stats">>
           /\ IsOp("get_peak_stats"))
          => /\ Leq(stats'.max_active_gib, stats.max_active_gib)
             /\ Leq(stats'.max_active_pct, stats.max_active_pct)
             /\ Leq(stats'.max_reserved_gib, stats.max_reserved_gib)
             /\ Leq(stats'.max_reserved_pct, stats.max_reserved_pct)
             /\ stats'.num_alloc_retries = stats.num_alloc_retries
             /\ stats'.num_ooms = stats.num_ooms]_vars

\* A snapshot, then a reset that lowered the peaks the snapshot had read
\* while the device's retry count stayed above zero.
C5_Witness ==
    /\ hist = <<"get_peak_stats", "reset_peak_stats">>
    /\ stats.taken /\ reset_dev = cuda_info.device
    /\ dev[reset_dev].active_peak < cuda_info.counters.active_peak
    /\ dev[reset_dev].reserved_peak < cuda_info.counters.reserved_peak
    /\ stats.num_alloc_retries > 0
    /\ dev[reset_dev].num_alloc_retries = stats.num_alloc_retries

\* C6: get_peak_stats modifies no device counter and no monitor attribute,
\* and of two successive snapshots of one monitor with no reset_peak_stats
\* between them (whatever the process did in between) the later one's
\* active peak, reserved peak, num_alloc_retries and num_ooms are each at
\* least the earlier one's.
C6_SnapshotsNonDecreasing ==
    [][IsOp("get_peak_stats")
        => /\ dev' = dev /\ mon' = mon
           /\ (stats.taken /\ ~reset_since)
              => /\ Leq(stats.max_active_gib, stats'.max_active_gib)
                 /\ Leq(stats.max_reserved_gib, stats'.max_reserved_gib)
                 /\ stats.num_alloc_retries <= stats'.num_alloc_retries
                 /\ stats.num_ooms <= stats'.num_ooms]_vars

\* C7: a snapshot taken immediately after __init__ reports
\* num_alloc_retries = 0 and num_ooms = 0, whatever the allocators did
\* before the monitor was built.
C7_FreshCountsAfterInit ==
    hist = <<"__init__", "get_peak_stats">>
        => stats.num_alloc_retries = 0 /\ stats.num_ooms = 0

\* Units of the model's byte counters in one GiB (1024^3 bytes).
UnitsPerGiB == (1024 * 1024 * 1024) \div BytesPerUnit

IsQuotient(q, n, d) == q.den > 0 /\ q.num * d = n * q.den

\* C8: every snapshot derives its four size fields from the peak counters it
\* read: gib = peak / 1024^3 and pct = 100 * peak / capacity, with the
\* capacity captured by __init__ (not the capacity of whatever device was
\* read) and no clamping; with capacity 16 GiB and an active peak of 8 GiB
\* the snapshot says 8.0 GiB and 50.0 percent; a peak equal to the capacity
\* is 100 percent and a peak of 0 is 0 percent.
C8_SizeFieldsDerived ==
    stats.taken =>
        LET a == cuda_info.counters.active_peak
            r == cuda_info.counters.reserved_peak
            c == mon.device_capacity
        IN  /\ IsQuotient(stats.max_active_gib, a, UnitsPerGiB)
            /\ IsQuotient(stats.max_reserved_gib, r, UnitsPerGiB)
            /\ IsQuotient(stats.max_active_pct, 100 * a, c)
            /\ IsQuotient(stats.max_reserved_pct, 100 * r, c)
            /\ (c = 16 * UnitsPerGiB /\ a = 8 * UnitsPerGiB)
               => (stats.max_active_gib = Whole(8)
                   /\ stats.max_active_pct = Whole(50))
            /\ a = c => stats.max_active_pct = Whole(100)
            /\ a = 0 => stats.max_active_pct = Whole(0)
            /\ a = 2 * c => stats.max_active_pct = Whole(200)
            /\ a = UnitsPerGiB => stats.max_active_gib = Whole(1)

\* The spec's scenario: capacity 16 GiB, active peak 8589934592 bytes.
C8_Witness ==
    /\ stats.taken
    /\ mon.device_capacity = 16 * UnitsPerGiB
    /\ cuda_info.counters.active_peak = 8 * UnitsPerGiB
    /\ stats.max_active_gib = Whole(8)
    /\ stats.max_active_pct = Whole(50)

\* A snapshot above 100 percent: the capacity is the 8 GiB captured by
\* __init__ while the counters read are those of the 16 GiB device.
C8_Unclamped ==
    /\ stats.taken
    /\ mon.device_capacity = 8 * UnitsPerGiB
    /\ stats.max_active_pct = Whole(200)

\* C9: get_peak_stats emits a warning during the call exactly when the
\* num_alloc_retries or the num_ooms it read is above zero, and it then still
\* returns a snapshot carrying those counts; with both at zero it emits none.
C9_WarnsIffDistress ==
    stats.taken =>
        /\ (warned # <<>>) <=> (cuda_info.counters.num_alloc_retries > 0
                                \/ cuda_info.counters.num_ooms > 0)
        /\ stats.num_alloc_retries = cuda_info.counters.num_alloc_retries
        /\ stats.num_ooms = cuda_info.counters.num_ooms

\* A retry that succeeded: one warning, no OOM.
C9_Witness ==
    /\ hist[2] = "get_peak_stats"
    /\ stats.num_alloc_retries = 1 /\ stats.num_ooms = 0
    /\ Len(warned) = 1

\* The device the constructor's argument identifies: its index, or for an
\* index-less "cuda" the device that was current at construction.
BoundDevice(m) == IF m.device = NoIndex THEN m.device_index ELSE m.device

SamePeaks(s, t) ==
    s.active_peak = t.active_peak /\ s.reserved_peak = t.reserved_peak

\* C10: a monitor is bound to one device for its lifetime: the cached
\* device_index, the peaks reset by __init__ and by reset_peak_stats and the
\* counters read by get_peak_stats all belong to the device its argument
\* identifies, even when that is not the current device, and the peaks of
\* the other devices are left unchanged.
C10_BoundToOneDevice ==
    [][mon'.live =>
        LET b == BoundDevice(mon') IN
            /\ mon'.device_index = b
            /\ (IsOp("__init__") \/ IsOp("reset_peak_stats"))
               => /\ reset_dev' = b
                  /\ \A d \in Devices \ {b} : SamePeaks(dev'[d], dev[d])
            /\ IsOp("get_peak_stats") => cuda_info'.device = b]_vars

====
